---- MODULE Spec2Model ----
(***************************************************************************)
(* A model of google/appengine/cron/groctimespecification.py: the Groc     *)
(* schedule objects (IntervalTimeSpecification, SpecificTimeSpecification), *)
(* their constructors, the factory, GetMatch and GetMatches.               *)
(*                                                                         *)
(* The module is Python 2 code (generator.next()).  Line 167 hands          *)
(* object.__init__ an argument: Python 2.5 and earlier ignore it, 2.6 and  *)
(* later raise TypeError.  Both interpreters are modelled; which one runs  *)
(* is chosen when an object is built.                                      *)
(***************************************************************************)
EXTENDS Integers, Sequences, FiniteSets, TLC

VARIABLES
  pc,        \* where control is: "init", "constructed", "loop", "months", ...
  obj,       \* the object a constructor or the factory returned, or the error raised
  given,     \* the arguments of the call in progress
  cursor,    \* GetMatches: the local start
  results,   \* GetMatches: the local out
  calls,     \* the GetMatch calls that returned: what each was given and returned
  fr,        \* the locals of the latest SpecificTimeSpecification.GetMatch call
  gen,       \* a month generator stepped on its own: its locals
  produced   \* the tuples that generator has yielded

vars == <<pc, obj, given, cursor, results, calls, fr, gen, produced>>

(***************************************************************************)
(* Bounds of the model.                                                    *)
(***************************************************************************)
\* the largest n handed to GetMatches
MaxN == 2
\* the number of year wraps of the month generator GetMatch is followed for
MaxWraps == 13
\* the number of values drawn from a generator that is stepped on its own
MaxYields == 5

(***************************************************************************)
(* Python values.                                                          *)
(***************************************************************************)
None == "None"

HOURS == "hours"

MINUTES == "minutes"

\* the exceptions the module raises or lets through
ValueError == "ValueError"

NonExistentTimeError == "NonExistentTimeError"

IndexError == "IndexError"

OverflowError == "OverflowError"

Min(S) == CHOOSE x \in S : \A y \in S : x <= y

\* sorted(S) for a set of integers: the i-th element has i - 1 smaller ones
Sorted(S) ==
  [i \in 1..Cardinality(S) |->
     CHOOSE x \in S : Cardinality({y \in S : y < x}) = i - 1]

\* [x for x in s if x > after]
FilterGreater(s, after) == SelectSeq(s, LAMBDA x : x > after)

\* [x for x in s if x >= least]
FilterAtLeast(s, least) == SelectSeq(s, LAMBDA x : x >= least)

(***************************************************************************)
(* The calendar: the proleptic Gregorian calendar of datetime and calendar. *)
(***************************************************************************)
\* the years the model's instants lie in
Years == 2010 .. (2024 + MaxWraps + 3)

IsLeap(y) == (y % 4 = 0) /\ ((y % 100 # 0) \/ (y % 400 = 0))

DaysInMonth(y, m) ==
  IF m = 2 THEN (IF IsLeap(y) THEN 29 ELSE 28)
  ELSE IF m \in {4, 6, 9, 11} THEN 30 ELSE 31

\* days before January 1st of year y, counted from 0001-01-01
DaysBeforeYear(y) ==
  (y - 1) * 365 + ((y - 1) \div 4) - ((y - 1) \div 100) + ((y - 1) \div 400)

\* days of the year before day 1 of month m (datetime's _days_before_month)
DaysBeforeMonth(y, m) ==
  <<0, 31, 59, 90, 120, 151, 181, 212, 243, 273, 304, 334>>[m]
  + (IF m > 2 /\ IsLeap(y) THEN 1 ELSE 0)

\* date.toordinal(): 0001-01-01 is day 1
ToOrdinal(y, m, d) == DaysBeforeYear(y) + DaysBeforeMonth(y, m) + d

\* date.weekday(): Monday is 0, Sunday is 6
Weekday(y, m, d) == (ToOrdinal(y, m, d) + 6) % 7

\* calendar.monthrange(year, month): (weekday of day 1, number of days)
MonthRange(y, m) == <<Weekday(y, m, 1), DaysInMonth(y, m)>>

(***************************************************************************)
(* datetime values: a record of the fields, tz "none" for a naive value and *)
(* "UTC" for one that carries pytz.utc.                                     *)
(***************************************************************************)
DT(y, mo, d, h, mi, s, us, tz) ==
  [year |-> y, month |-> mo, day |-> d, hour |-> h, minute |-> mi,
   second |-> s, microsecond |-> us, tz |-> tz]

\* minutes from 0001-01-01 00:00 to the value's own wall clock
AbsMinutes(dt) ==
  (ToOrdinal(dt.year, dt.month, dt.day) - 1) * 1440 + dt.hour * 60 + dt.minute

\* the wall clock that lies n minutes after 0001-01-01 00:00
FromAbsMinutes(n, s, us, tz) ==
  LET ord == (n \div 1440) + 1
      rest == n % 1440
      y == CHOOSE yy \in Years :
             DaysBeforeYear(yy) < ord /\ ord <= DaysBeforeYear(yy + 1)
      doy == ord - DaysBeforeYear(y)
      mo == CHOOSE mm \in 1..12 :
              DaysBeforeMonth(y, mm) < doy
              /\ doy <= DaysBeforeMonth(y, mm) + DaysInMonth(y, mm)
  IN DT(y, mo, doy - DaysBeforeMonth(y, mo), rest \div 60, rest % 60, s, us, tz)

\* dt + datetime.timedelta(minutes=n)
AddMinutes(dt, n) ==
  FromAbsMinutes(AbsMinutes(dt) + n, dt.second, dt.microsecond, dt.tz)

\* the order of two datetimes with the same tz
Before(a, b) ==
  \/ AbsMinutes(a) < AbsMinutes(b)
  \/ /\ AbsMinutes(a) = AbsMinutes(b)
     /\ \/ a.second < b.second
        \/ a.second = b.second /\ a.microsecond < b.microsecond

(***************************************************************************)
(* The localization capability (pytz): a zone has two UTC offsets, in      *)
(* minutes, around one transition at the UTC minute "at", and a stretch of *)
(* naive local minutes gapFrom .. gapTo - 1 it cannot resolve, for which   *)
(* localize raises "signal".  For a zone of the timezone database the      *)
(* stretch is the local hour (or day) the transition skips.                *)
(***************************************************************************)
Zone(name, before, after, at) ==
  [name |-> name, before |-> before, after |-> after, at |-> AbsMinutes(at),
   gapFrom |-> AbsMinutes(at) + before, gapTo |-> AbsMinutes(at) + after,
   signal |-> NonExistentTimeError]

\* 2024-03-10: 02:00 PST becomes 03:00 PDT
USPacific == Zone("US/Pacific", -480, -420, DT(2024, 3, 10, 10, 0, 0, 0, "UTC"))

\* 2011-12-30 does not exist in Samoa: UTC-10 becomes UTC+14
PacificApia == Zone("Pacific/Apia", -600, 840, DT(2011, 12, 30, 10, 0, 0, 0, "UTC"))

\* 2024-11-03: 02:00 PDT becomes 01:00 PST again, no local time is skipped
USPacificFall == Zone("US/Pacific-fall", -420, -480, DT(2024, 11, 3, 9, 0, 0, 0, "UTC"))

\* a capability on UTC that resolves no local time of 2024-06-10 and 2024-06-11
Unresolvable ==
  [name |-> "Stub/Unresolvable", before |-> 0, after |-> 0,
   at |-> AbsMinutes(DT(2024, 6, 10, 0, 0, 0, 0, "UTC")),
   gapFrom |-> AbsMinutes(DT(2024, 6, 10, 0, 0, 0, 0, "UTC")),
   gapTo |-> AbsMinutes(DT(2024, 6, 12, 0, 0, 0, 0, "UTC")),
   signal |-> IndexError]

Zones == {USPacific, PacificApia, USPacificFall, Unresolvable}

ZoneNames == {z.name : z \in Zones}

ZoneOf(name) == CHOOSE z \in Zones : z.name = name

\* tz.localize(naive): the UTC offset the zone gives the local time, or the signal
Localize(zone, naive) ==
  LET l == AbsMinutes(naive) IN
  IF zone.gapFrom <= l /\ l < zone.gapTo
    THEN [ok |-> FALSE, exc |-> zone.signal, offset |-> 0]
    ELSE [ok |-> TRUE, exc |-> None,
          offset |-> IF l < zone.at + zone.after THEN zone.before ELSE zone.after]

\* aware.astimezone(pytz.utc) of the local time naive with the given offset
ToUTC(naive, offset) == [AddMinutes(naive, -offset) EXCEPT !.tz = "UTC"]

\* utc.astimezone(tz).replace(tzinfo=None)
UtcToLocal(zone, utc) ==
  LET off == IF AbsMinutes(utc) < zone.at THEN zone.before ELSE zone.after
  IN [AddMinutes(utc, off) EXCEPT !.tz = "none"]

(***************************************************************************)
(* Results of a call: a returned value or a raised exception.              *)
(***************************************************************************)
Raise(exc) == [kind |-> "error", exc |-> exc]

(***************************************************************************)
(* IntervalTimeSpecification.                                              *)
(***************************************************************************)
IntervalInit(interval, period) ==
  [kind |-> "interval", interval |-> interval, period |-> period]

\* IntervalGetMatch with the period ignored: the amount is always minutes
IntervalGetMatchMinutes(self, t) == AddMinutes(t, self.interval)

IntervalGetMatch(self, t) ==
  IF self.period = HOURS
    THEN AddMinutes(t, 60 * self.interval)
    ELSE AddMinutes(t, self.interval)

(***************************************************************************)
(* SpecificTimeSpecification.__init__.  A time string is the sequence of   *)
(* its characters.                                                         *)
(***************************************************************************)
Digits == <<"0", "1", "2", "3", "4", "5", "6", "7", "8", "9">>

DigitValue(c) == (CHOOSE i \in 1..10 : Digits[i] = c) - 1

IsDigit(c) == \E i \in 1..10 : Digits[i] = c

\* the positions of ':' in the string
Colons(str) == {i \in 1..Len(str) : str[i] = ":"}

\* the characters C's isspace() knows, which int() skips: blank, tab, newline,
\* carriage return, form feed and (written as the character itself) vertical tab
Blanks == {" ", "\t", "\n", "\r", "\f", ""}

\* the first position from i on that holds no blank (Len(str) + 1 when none does)
SkipBlanks(str, i) ==
  Min({j \in i..(Len(str) + 1) : j = Len(str) + 1 \/ str[j] \notin Blanks})

\* the first position from i on that holds no digit (Len(str) + 1 when none does)
SkipDigits(str, i) ==
  Min({j \in i..(Len(str) + 1) : j = Len(str) + 1 \/ ~IsDigit(str[j])})

\* a string of digits without its leading zeros
Significant(body) ==
  SubSeq(body, Min({j \in 1..(Len(body) + 1) : j = Len(body) + 1 \/ body[j] # "0"}),
         Len(body))

\* the number written by the digits a is larger than the one written by b
\* (neither has leading zeros)
Exceeds(a, b) ==
  \/ Len(a) > Len(b)
  \/ /\ Len(a) = Len(b)
     /\ \E i \in 1..Len(a) :
          /\ DigitValue(a[i]) > DigitValue(b[i])
          /\ \A j \in 1..(i - 1) : a[j] = b[j]

\* the largest magnitude a C int holds: 2^31 - 1, and 2^31 below zero
CIntLimit(negative) ==
  IF negative THEN <<"2", "1", "4", "7", "4", "8", "3", "6", "4", "8">>
  ELSE <<"2", "1", "4", "7", "4", "8", "3", "6", "4", "7">>

\* the number the digits write, with the sign (1 or -1) applied digit by digit
RECURSIVE SignedValue(_, _)
SignedValue(str, sign) ==
  IF str = <<>> THEN 0
  ELSE 10 * SignedValue(SubSeq(str, 1, Len(str) - 1), sign)
       + sign * DigitValue(str[Len(str)])

\* int(s) of Python 2: blanks, an optional sign, blanks, decimal digits, blanks.
\* Anything else, a trailing L included, is a ValueError.  The result says
\* whether the number fits a C int, and is the number itself when it does and
\* its sign and digits when it does not.
IntOf(str) ==
  LET a == SkipBlanks(str, 1)
      signed == a <= Len(str) /\ str[a] \in {"+", "-"}
      negative == signed /\ str[a] = "-"
      b == SkipBlanks(str, IF signed THEN a + 1 ELSE a)
      e == SkipDigits(str, b)
      digits == Significant(SubSeq(str, b, e - 1))
  IN IF e = b \/ SkipBlanks(str, e) <= Len(str) THEN Raise(ValueError)
     ELSE IF Exceeds(digits, CIntLimit(negative))
       THEN [kind |-> "ok", fits |-> FALSE, negative |-> negative, digits |-> digits]
     ELSE [kind |-> "ok", fits |-> TRUE,
           value |-> SignedValue(digits, IF negative THEN -1 ELSE 1)]

\* hourstr, minutestr = timestr.split(':'); datetime.time(int(hourstr), int(minutestr)):
\* both int() calls come first, then datetime.time takes its arguments as C
\* ints (OverflowError), then it checks their ranges (ValueError)
ParseTime(timestr) ==
  IF Cardinality(Colons(timestr)) # 1 THEN Raise(ValueError)
  ELSE LET c == CHOOSE i \in Colons(timestr) : TRUE
           h == IntOf(SubSeq(timestr, 1, c - 1))
           m == IntOf(SubSeq(timestr, c + 1, Len(timestr)))
       IN IF h.kind = "error" \/ m.kind = "error" THEN Raise(ValueError)
          ELSE IF ~h.fits \/ ~m.fits THEN Raise(OverflowError)
          ELSE IF h.value \notin 0..23 \/ m.value \notin 0..59 THEN Raise(ValueError)
          ELSE [kind |-> "ok", hour |-> h.value, minute |-> m.value]

\* An optional set argument is the set of the values given for it: empty when
\* the argument is left at its default None, {S} when the set S is supplied.
Omitted == {}

Supplied(S) == {S}

OrDefault(value, default) ==
  IF value = Omitted THEN default ELSE CHOOSE S \in value : TRUE

\* super(SpecificTimeSpecification, self).__init__(self): object.__init__ is
\* handed an argument, which it ignores (lenient: Python 2.5 and earlier) or
\* rejects (2.6 and later)
SuperInit(lenient) == IF lenient THEN [kind |-> "ok"] ELSE Raise("TypeError")

\* SpecificInit with a range check of the four sets added before line 170
SpecificInitRanged(ordinals, weekdays, months, monthdays, timestr, timezone, pytz, lenient) ==
  IF SuperInit(lenient).kind = "error" THEN SuperInit(lenient)
  ELSE IF weekdays # Omitted /\ monthdays # Omitted THEN Raise(ValueError)
  ELSE IF \/ ~(OrDefault(ordinals, 1..5) \subseteq 1..5)
          \/ ~(OrDefault(weekdays, 0..6) \subseteq 0..6)
          \/ ~(OrDefault(months, 1..12) \subseteq 1..12)
          \/ ~(OrDefault(monthdays, {}) \subseteq 1..31)
    THEN Raise(ValueError)
  ELSE LET t == ParseTime(timestr) IN
    IF t.kind = "error" THEN t
    ELSE IF timezone \notin {None, ""} /\ ~pytz THEN Raise(ValueError)
    ELSE IF timezone \notin {None, ""} /\ timezone \notin ZoneNames
      THEN Raise("UnknownTimeZoneError")
    ELSE [kind |-> "specific",
          ordinals |-> OrDefault(ordinals, 1..5),
          weekdays |-> OrDefault(weekdays, 0..6),
          months |-> OrDefault(months, 1..12),
          monthdays |-> OrDefault(monthdays, {}),
          time |-> [hour |-> t.hour, minute |-> t.minute],
          timezone |-> IF timezone \in {None, ""} THEN None ELSE timezone]

SpecificInit(ordinals, weekdays, months, monthdays, timestr, timezone, pytz, lenient) ==
  IF SuperInit(lenient).kind = "error" THEN SuperInit(lenient)
  ELSE IF weekdays # Omitted /\ monthdays # Omitted THEN Raise(ValueError)
  ELSE LET t == ParseTime(timestr) IN
    IF t.kind = "error" THEN t
    ELSE IF timezone \notin {None, ""} /\ ~pytz THEN Raise(ValueError)
    ELSE IF timezone \notin {None, ""} /\ timezone \notin ZoneNames
      THEN Raise("UnknownTimeZoneError")
    ELSE [kind |-> "specific",
          ordinals |-> OrDefault(ordinals, 1..5),
          weekdays |-> OrDefault(weekdays, 0..6),
          months |-> OrDefault(months, 1..12),
          monthdays |-> OrDefault(monthdays, {}),
          time |-> [hour |-> t.hour, minute |-> t.minute],
          timezone |-> IF timezone \in {None, ""} THEN None ELSE timezone]

(***************************************************************************)
(* The factory: the parser's attributes after parser.timespec().           *)
(***************************************************************************)
\* GrocTimeSpecification handing on the monthdays and the timezone as well
GrocTimeSpecificationAllFields(parser, lenient) ==
  IF parser.interval_mins # 0
    THEN IntervalInit(parser.interval_mins, parser.period_string)
    ELSE SpecificInit(Supplied(parser.ordinal_set), Supplied(parser.weekday_set),
                      Supplied(parser.month_set),
                      IF parser.monthday_set = {} THEN Omitted
                      ELSE Supplied(parser.monthday_set),
                      parser.time_string, parser.timezone_string, TRUE, lenient)

GrocTimeSpecification(parser, lenient) ==
  IF parser.interval_mins # 0
    THEN IntervalInit(parser.interval_mins, parser.period_string)
    ELSE SpecificInit(Supplied(parser.ordinal_set), Supplied(parser.weekday_set),
                      Supplied(parser.month_set), Omitted, parser.time_string,
                      None, TRUE, lenient)

(***************************************************************************)
(* SpecificTimeSpecification._MatchingDays.                                *)
(***************************************************************************)
\* the day of the ordinal-th weekday of a month whose day 1 is start_day
DayOf(ordinal, weekday, start_day) ==
  ((weekday - start_day) % 7) + 1 + 7 * (ordinal - 1)

\* (ordinal, weekday) pairs in the order sorted() leaves their days in
PairBefore(q, p, start_day) ==
  \/ DayOf(q[1], q[2], start_day) < DayOf(p[1], p[2], start_day)
  \/ /\ DayOf(q[1], q[2], start_day) = DayOf(p[1], p[2], start_day)
     /\ (q[1] < p[1] \/ (q[1] = p[1] /\ q[2] < p[2]))

\* sorted(out_days), out_days holding one day for each (ordinal, weekday) of pairs
SortedDays(pairs, start_day) ==
  [i \in 1..Cardinality(pairs) |->
     LET p == CHOOSE q \in pairs :
                Cardinality({r \in pairs : PairBefore(r, q, start_day)}) = i - 1
     IN DayOf(p[1], p[2], start_day)]

MatchingDays(self, year, month) ==
  LET start_day == (MonthRange(year, month)[1] + 1) % 7
      last_day == MonthRange(year, month)[2]
  IN SortedDays({p \in self.ordinals \X self.weekdays :
                   DayOf(p[1], p[2], start_day) <= last_day}, start_day)

(***************************************************************************)
(* SpecificTimeSpecification._NextMonthGenerator: the generator's locals,  *)
(* and one resumption of it up to its yield.                               *)
(***************************************************************************)
NextMonthGenerator(start, matches) ==
  [matches |-> Sorted(matches), potential |-> Sorted(matches),
   after |-> start - 1, wrapcount |-> 0]

\* GeneratorNext without "wrapcount += 1"
GeneratorNextNoWrapCount(g) ==
  LET kept == FilterGreater(g.potential, g.after)
      potential == IF kept = <<>> THEN g.matches ELSE kept
  IN [g EXCEPT !.potential = potential, !.after = potential[1]]

GeneratorNext(g) ==
  LET kept == FilterGreater(g.potential, g.after)
      potential == IF kept = <<>> THEN g.matches ELSE kept
  IN [g EXCEPT !.potential = potential,
               !.wrapcount = IF kept = <<>> THEN g.wrapcount + 1 ELSE g.wrapcount,
               !.after = potential[1]]

\* the 2-tuple the generator yields when it stops in state g
Yielded(g) == <<g.after, g.wrapcount>>

(***************************************************************************)
(* SpecificTimeSpecification.GetMatch: the pieces of its body.             *)
(***************************************************************************)
\* range(24) of the recovery loop
ProbeLimit == 24

\* out.replace(minute=1)
ProbeMinute == 1

\* datetime.timedelta(minutes=60)
ProbeStep == 60

\* Caught without IndexError: "except NonExistentTimeError" alone
CaughtNonExistentOnly == {NonExistentTimeError}

\* the exceptions of localize the recovery catches
Caught == {NonExistentTimeError, IndexError}

\* the local start: lines 255-260
StartTime(self, start) ==
  IF self.timezone # None THEN UtcToLocal(ZoneOf(self.timezone), start) ELSE start

\* TimeReached with > for >=: a start exactly at the slot keeps the slot
TimeReachedStrict(start_time, time) ==
  \/ start_time.hour > time.hour
  \/ start_time.hour = time.hour /\ start_time.minute > time.minute

\* start_time.time() >= self.time, self.time having no seconds
TimeReached(start_time, time) ==
  \/ start_time.hour > time.hour
  \/ start_time.hour = time.hour /\ start_time.minute >= time.minute

\* while day_matches and day_matches[0] == day and reached: day_matches.pop(0)
PopWhile(day_matches, day, reached) ==
  LET popped == IF reached
                  THEN {k \in 0..Len(day_matches) : \A j \in 1..k : day_matches[j] = day}
                  ELSE {0}
      n == CHOOSE k \in popped : \A j \in popped : j <= k
  IN SubSeq(day_matches, n + 1, Len(day_matches))

\* the days of the candidate month, before the trimming of the start's own month
DayMatches(self, year, month) ==
  IF self.monthdays # {}
    THEN Sorted({x \in self.monthdays : x <= MonthRange(year, month)[2]})
    ELSE MatchingDays(self, year, month)

\* the trimming when the candidate month is the start's own month
TrimDays(day_matches, start_time, time) ==
  PopWhile(FilterAtLeast(day_matches, start_time.day), start_time.day,
           TimeReached(start_time, time))

\* CandidateDays with the test of line 275 dropped: every month is trimmed
CandidateDaysAlwaysTrimmed(self, start_time, month, yearwraps) ==
  TrimDays(DayMatches(self, start_time.year + yearwraps, month), start_time,
           self.time)

\* day_matches of lines 268-280 for the (month, yearwraps) the generator gave
CandidateDays(self, start_time, month, yearwraps) ==
  LET year == start_time.year + yearwraps
      all == DayMatches(self, year, month)
  IN IF <<year, month>> = <<start_time.year, start_time.month>>
       THEN TrimDays(all, start_time, self.time)
       ELSE all

\* start_time.replace(day=1, month=.., year=..).replace(day=day, hour=..,
\* minute=.., second=0, microsecond=0): the tzinfo of start_time stays
Candidate(self, start_time, month, yearwraps, day) ==
  DT(start_time.year + yearwraps, month, day, self.time.hour, self.time.minute,
     0, 0, start_time.tz)

\* NextProbe without replace(minute=1): one hour after the value last tried
NextProbeNoReset(local) == AddMinutes(local, ProbeStep)

\* the local time the next retry tries: out.replace(minute=1) + 60 minutes
NextProbe(local) == AddMinutes([local EXCEPT !.minute = ProbeMinute], ProbeStep)

(***************************************************************************)
(* The inputs the model draws from.                                        *)
(***************************************************************************)
Str(h1, h2, m1, m2) == <<h1, h2, ":", m1, m2>>

Args(ordinals, weekdays, months, monthdays, timestr, timezone, pytz) ==
  [ordinals |-> ordinals, weekdays |-> weekdays, months |-> months,
   monthdays |-> monthdays, timestr |-> timestr, timezone |-> timezone,
   pytz |-> pytz]

Midnight == Str("0", "0", "0", "0")

Nine == Str("0", "9", "0", "0")

\* schedules on the UTC path
UtcArgs ==
  { Args(Omitted, Omitted, Omitted, Omitted, Midnight, None, TRUE),
    Args(Supplied({1}), Supplied({1}), Omitted, Omitted, Nine, None, TRUE),
    Args(Omitted, Omitted, Omitted, Supplied({31}), Midnight, None, FALSE),
    Args(Supplied({5}), Supplied({0}), Supplied({2}), Omitted, Nine, None, TRUE),
    Args(Supplied({5}), Supplied({3}), Supplied({2}), Omitted, Nine, None, TRUE),
    Args(Omitted, Omitted, Supplied({2}), Supplied({30}), Midnight, None, TRUE),
    Args(Supplied({1, 3}), Supplied({0, 6}), Supplied({1, 2, 3}), Omitted,
         Str("0", "9", "1", "5"), None, TRUE),
    Args(Omitted, Omitted, Supplied({2}), Supplied({29}), Str("1", "2", "0", "0"),
         None, TRUE),
    Args(Omitted, Omitted, Supplied({4, 6, 9, 11}), Supplied({31}), Nine, "", TRUE),
    Args(Omitted, Omitted, Supplied({12}), Supplied({1, 15}), Nine, None, TRUE),
    Args(Supplied({4, 5}), Supplied({5}), Supplied({1, 6}), Omitted,
         Str("2", "3", "5", "9"), None, TRUE),
    Args(Omitted, Omitted, Supplied({1}), Supplied({1}), Midnight, None, TRUE),
    Args(Omitted, Supplied({2, 4}), Omitted, Omitted, Str("1", "0", "0", "0"),
         None, TRUE),
    Args(Supplied({5}), Supplied({4}), Supplied({2, 3, 6}), Omitted, Nine, None, TRUE),
    Args(Supplied({5}), Supplied({3}), Supplied({1, 2, 3, 4, 6, 8, 9, 11, 12}),
         Omitted, Nine, None, TRUE),
    Args(Supplied({5}), Supplied({0}), Omitted, Omitted, Nine, None, TRUE),
    Args(Omitted, Omitted, Supplied({1, 2, 4, 6, 9, 11}), Supplied({31}), Nine,
         None, TRUE) }

\* schedules in a named timezone
ZoneArgs ==
  { Args(Omitted, Omitted, Omitted, Omitted, Str("0", "2", "3", "0"), "US/Pacific", TRUE),
    Args(Supplied({2}), Supplied({0}), Supplied({3}), Omitted,
         Str("0", "2", "0", "0"), "US/Pacific", TRUE),
    Args(Omitted, Omitted, Omitted, Supplied({30}), Str("1", "2", "3", "0"),
         "Pacific/Apia", TRUE),
    Args(Omitted, Omitted, Supplied({12}), Supplied({30}), Midnight,
         "Pacific/Apia", TRUE),
    Args(Omitted, Omitted, Omitted, Omitted, Str("0", "1", "3", "0"),
         "US/Pacific-fall", TRUE),
    Args(Omitted, Omitted, Supplied({6}), Supplied({10}), Midnight,
         "Stub/Unresolvable", TRUE),
    Args(Omitted, Omitted, Supplied({6}), Supplied({11}), Str("2", "2", "3", "0"),
         "Stub/Unresolvable", TRUE) }

\* calls that break a rule the constructor checks, or one it does not check
OddArgs ==
  { Args(Omitted, Supplied({1}), Omitted, Supplied({1}), Midnight, None, TRUE),
    Args(Supplied({1}), Supplied({}), Omitted, Supplied({}), Nine, None, TRUE),
    Args(Supplied({6}), Omitted, Omitted, Omitted, Midnight, None, TRUE),
    Args(Supplied({0, 1}), Supplied({1}), Omitted, Omitted, Midnight, None, TRUE),
    Args(Omitted, Supplied({0, 7}), Omitted, Omitted, Nine, None, TRUE),
    Args(Omitted, Omitted, Supplied({13}), Omitted, Midnight, None, TRUE),
    Args(Omitted, Omitted, Omitted, Supplied({32}), Midnight, None, TRUE),
    Args(Omitted, Omitted, Omitted, Supplied({0, 15}), Midnight, None, TRUE),
    Args(Omitted, Omitted, Supplied({}), Omitted, Midnight, None, TRUE),
    Args(Supplied({}), Omitted, Omitted, Omitted, Midnight, None, TRUE),
    Args(Omitted, Omitted, Omitted, Omitted, <<"9">>, None, TRUE),
    Args(Omitted, Omitted, Omitted, Omitted, Str("2", "5", "0", "0"), None, TRUE),
    Args(Omitted, Omitted, Omitted, Omitted, Str("0", "9", "6", "0"), None, TRUE),
    Args(Omitted, Omitted, Omitted, Omitted, <<"n", "o", "o", "n">>, None, TRUE),
    Args(Omitted, Omitted, Omitted, Omitted, <<"9", ":", "0", "0", ":", "0", "0">>,
         None, TRUE),
    Args(Omitted, Omitted, Omitted, Omitted, <<"+", "9", ":", "0", "0">>, None, TRUE),
    Args(Omitted, Omitted, Omitted, Omitted, <<" ", "9", ":", "0", "0", " ">>, None, TRUE),
    Args(Omitted, Omitted, Omitted, Omitted, <<"-", "1", ":", "0", "0">>, None, TRUE),
    Args(Omitted, Omitted, Omitted, Omitted, <<"+", " ", "9", ":", "0", "0">>, None, TRUE),
    Args(Omitted, Omitted, Omitted, Omitted, <<"0", "9", ":", "0", "0", "\r">>, None, TRUE),
    Args(Omitted, Omitted, Omitted, Omitted, <<"9", "L", ":", "0", "0">>, None, TRUE),
    Args(Omitted, Omitted, Omitted, Omitted,
         <<"2", "1", "4", "7", "4", "8", "3", "6", "4", "8", ":", "0", "0">>, None, TRUE),
    Args(Omitted, Omitted, Omitted, Omitted, Nine, "US/Pacific", FALSE),
    Args(Omitted, Omitted, Omitted, Omitted, Nine, "Mars/Phobos", TRUE) }

CtorArgs == UtcArgs \cup ZoneArgs \cup OddArgs

Amounts == {0, 1, 20, 36}

Periods == {HOURS, MINUTES}

Parsed(interval_mins, period_string, ordinal_set, weekday_set, month_set, monthday_set, time_string, timezone_string) ==
  [interval_mins |-> interval_mins, period_string |-> period_string,
   ordinal_set |-> ordinal_set, weekday_set |-> weekday_set,
   month_set |-> month_set, monthday_set |-> monthday_set,
   time_string |-> time_string, timezone_string |-> timezone_string]

\* what the parser holds after timespec()
ParserOutputs ==
  { Parsed(20, MINUTES, {}, {}, {}, {}, <<>>, None),
    Parsed(2, HOURS, {}, {}, {}, {}, <<>>, None),
    Parsed(0, "", {1}, {1}, 1..12, {}, Nine, None),
    Parsed(0, "", {1, 3}, {0, 6}, {1, 2, 3}, {}, Str("0", "9", "1", "5"), None),
    Parsed(0, "", 1..5, 0..6, 1..12, {}, Str("0", "2", "3", "0"), "US/Pacific"),
    Parsed(0, "", {}, {}, 1..12, {15}, Midnight, None),
    Parsed(0, "", 1..5, 0..6, {6}, {}, <<>>, None) }

\* UTC datetimes handed to GetMatch and GetMatches: naive ones, and one that
\* carries pytz.utc
Starts ==
  { DT(2024, 1, 1, 0, 0, 0, 0, "none"),
    DT(2024, 1, 1, 0, 0, 0, 0, "UTC"),
    DT(2024, 1, 1, 9, 0, 0, 0, "none"),
    DT(2024, 1, 1, 8, 59, 59, 999999, "none"),
    DT(2024, 1, 1, 9, 0, 0, 1, "none"),
    DT(2024, 4, 1, 0, 0, 0, 0, "none"),
    DT(2024, 1, 31, 10, 0, 30, 0, "none"),
    DT(2024, 2, 29, 12, 0, 0, 0, "none"),
    DT(2024, 12, 31, 23, 59, 30, 0, "none"),
    DT(2023, 2, 28, 23, 0, 0, 0, "none"),
    DT(2024, 3, 9, 12, 0, 0, 0, "none"),
    DT(2024, 3, 10, 9, 45, 0, 0, "none"),
    DT(2024, 3, 10, 10, 1, 0, 0, "none"),
    DT(2011, 12, 29, 20, 0, 0, 0, "none"),
    DT(2024, 6, 9, 12, 0, 0, 0, "none"),
    DT(2024, 6, 11, 12, 0, 0, 0, "none"),
    DT(2024, 11, 3, 8, 15, 0, 0, "none"),
    DT(2024, 11, 3, 9, 15, 0, 0, "none") }

(***************************************************************************)
(* The caller: it builds one object, through a constructor or the factory, *)
(* and calls GetMatches(start, n) on it.                                   *)
(***************************************************************************)
NoGenerator == [matches |-> <<>>, potential |-> <<>>, after |-> 0, wrapcount |-> 0]

NoFrame ==
  [start |-> None, start_time |-> None, gen |-> NoGenerator, yields |-> <<>>,
   candidate |-> None, out |-> None, failed |-> FALSE, probes |-> <<>>,
   value |-> None, exc |-> None]

Init ==
  /\ pc = "init"
  /\ obj = None
  /\ given = [op |-> "none"]
  /\ cursor = None
  /\ results = <<>>
  /\ calls = <<>>
  /\ fr = NoFrame
  /\ gen = NoGenerator
  /\ produced = <<>>

Built(o) == IF o.kind = "error" THEN "ctor_raised" ELSE "constructed"

\* SpecificTimeSpecification(ordinals, weekdays, months, monthdays, timestr, timezone)
NewSpecific ==
  /\ pc = "init"
  /\ \E a \in CtorArgs, lenient \in BOOLEAN :
       \E o \in {SpecificInit(a.ordinals, a.weekdays, a.months, a.monthdays,
                              a.timestr, a.timezone, a.pytz, lenient)} :
          /\ obj' = o
          /\ pc' = Built(o)
          /\ given' = [op |-> "SpecificTimeSpecification", args |-> a,
                       lenient |-> lenient]
  /\ UNCHANGED <<cursor, results, calls, fr, gen, produced>>

\* IntervalTimeSpecification(interval, period)
NewInterval ==
  /\ pc = "init"
  /\ \E interval \in Amounts, period \in Periods :
       /\ obj' = IntervalInit(interval, period)
       /\ given' = [op |-> "IntervalTimeSpecification",
                    args |-> [interval |-> interval, period |-> period]]
  /\ pc' = "constructed"
  /\ UNCHANGED <<cursor, results, calls, fr, gen, produced>>

\* GrocTimeSpecification(schedule), the parser having recognized p
Factory ==
  /\ pc = "init"
  /\ \E p \in ParserOutputs, lenient \in BOOLEAN :
       \E o \in {GrocTimeSpecification(p, lenient)} :
          /\ obj' = o
          /\ pc' = Built(o)
          /\ given' = [op |-> "GrocTimeSpecification", args |-> p,
                       lenient |-> lenient]
  /\ UNCHANGED <<cursor, results, calls, fr, gen, produced>>

\* obj.GetMatches(start, n): out = []
CallGetMatches ==
  /\ pc = "constructed"
  /\ \E start \in Starts, n \in 0..MaxN :
       /\ given' = [op |-> "GetMatches", args |-> [start |-> start, n |-> n]]
       /\ cursor' = start
  /\ results' = <<>>
  /\ pc' = "loop"
  /\ UNCHANGED <<obj, calls, fr, gen, produced>>

\* Returned with the result not fed back: every pass starts from the same start
ReturnedNoFeedback(arg, value) ==
  /\ calls' = Append(calls, [arg |-> arg, value |-> value])
  /\ cursor' = cursor
  /\ results' = Append(results, value)
  /\ pc' = "loop"

\* what GetMatches does with the value a GetMatch call returns:
\* start = self.GetMatch(start); out.append(start)
Returned(arg, value) ==
  /\ calls' = Append(calls, [arg |-> arg, value |-> value])
  /\ cursor' = value
  /\ results' = Append(results, value)
  /\ pc' = "loop"

\* a pass of "for _ in range(n)" on an IntervalTimeSpecification
IntervalStep ==
  /\ pc = "loop"
  /\ Len(results) < given.args.n
  /\ obj.kind = "interval"
  /\ Returned(cursor, IntervalGetMatch(obj, cursor))
  /\ UNCHANGED <<obj, given, fr, gen, produced>>

\* a pass on a SpecificTimeSpecification enters GetMatch: lines 255-262
GetMatchEnter ==
  /\ pc = "loop"
  /\ Len(results) < given.args.n
  /\ obj.kind = "specific"
  /\ \E start_time \in {StartTime(obj, cursor)} :
       IF obj.months = {}
         \* months is unbound at line 264
         THEN /\ fr' = [NoFrame EXCEPT !.start = cursor, !.start_time = start_time,
                                       !.exc = "UnboundLocalError"]
              /\ pc' = "raised"
         ELSE /\ fr' = [NoFrame EXCEPT
                          !.start = cursor, !.start_time = start_time,
                          !.gen = NextMonthGenerator(start_time.month, obj.months)]
              /\ pc' = "months"
  /\ UNCHANGED <<obj, given, cursor, results, calls, gen, produced>>

\* one pass of "while True": lines 264-286
MonthStep ==
  /\ pc = "months"
  /\ \E g \in {GeneratorNext(fr.gen)} :
       LET month == g.after
           yearwraps == g.wrapcount
           drawn == [fr EXCEPT !.gen = g, !.yields = Append(@, Yielded(g))]
       IN IF yearwraps > MaxWraps
            THEN /\ fr' = drawn
                 /\ pc' = "searching"
          ELSE IF month \notin 1..12
            \* start_time.replace(month=month) raises
            THEN /\ fr' = [drawn EXCEPT !.exc = ValueError]
                 /\ pc' = "raised"
          ELSE \E day_matches \in {CandidateDays(obj, fr.start_time, month, yearwraps)} :
            IF day_matches = <<>>
              THEN /\ fr' = drawn
                   /\ pc' = "months"
            ELSE IF day_matches[1] < 1
              \* candidate_month.replace(day=day_matches[0]) raises
              THEN /\ fr' = [drawn EXCEPT !.exc = ValueError]
                   /\ pc' = "raised"
              ELSE /\ fr' = [drawn EXCEPT
                               !.candidate = Candidate(obj, fr.start_time, month,
                                                       yearwraps, day_matches[1]),
                               !.out = Candidate(obj, fr.start_time, month,
                                                 yearwraps, day_matches[1])]
                   /\ pc' = "candidate"
  /\ UNCHANGED <<obj, given, cursor, results, calls, gen, produced>>

\* lines 287-290 and 298-299: the candidate is localized, or returned as it is
LocalizeStep ==
  /\ pc = "candidate"
  /\ IF obj.timezone = None
       THEN /\ fr' = [fr EXCEPT !.value = fr.out]
            /\ Returned(fr.start, fr.out)
       ELSE \E r \in {Localize(ZoneOf(obj.timezone), fr.out)} :
              IF r.ok
                THEN /\ fr' = [fr EXCEPT !.value = ToUTC(fr.out, r.offset)]
                     /\ Returned(fr.start, ToUTC(fr.out, r.offset))
              ELSE IF r.exc \in Caught
                THEN /\ fr' = [fr EXCEPT !.failed = TRUE]
                     /\ pc' = "probing"
                     /\ UNCHANGED <<cursor, results, calls>>
                ELSE /\ fr' = [fr EXCEPT !.failed = TRUE, !.exc = r.exc]
                     /\ pc' = "raised"
                     /\ UNCHANGED <<cursor, results, calls>>
  /\ UNCHANGED <<obj, given, gen, produced>>

\* one pass of "for _ in range(24)": lines 291-297, and 298-299 after the break
ProbeOnce ==
  /\ pc = "probing"
  /\ Len(fr.probes) < ProbeLimit
  /\ \E probe \in {NextProbe(fr.out)} :
       \E r \in {Localize(ZoneOf(obj.timezone), probe)} :
         LET tried == [fr EXCEPT !.out = probe, !.probes = Append(@, probe)]
         IN IF r.ok
              THEN /\ fr' = [tried EXCEPT !.value = ToUTC(probe, r.offset)]
                   /\ Returned(fr.start, ToUTC(probe, r.offset))
            ELSE IF r.exc \in Caught
              THEN /\ fr' = tried
                   /\ pc' = "probing"
                   /\ UNCHANGED <<cursor, results, calls>>
              ELSE /\ fr' = [tried EXCEPT !.exc = r.exc]
                   /\ pc' = "raised"
                   /\ UNCHANGED <<cursor, results, calls>>
  /\ UNCHANGED <<obj, given, gen, produced>>

\* the for loop ran out: line 298 calls astimezone() on the naive out, which raises
ProbesExhausted ==
  /\ pc = "probing"
  /\ Len(fr.probes) = ProbeLimit
  /\ fr' = [fr EXCEPT !.exc = ValueError]
  /\ pc' = "raised"
  /\ UNCHANGED <<obj, given, cursor, results, calls, gen, produced>>

\* return out
GetMatchesReturn ==
  /\ pc = "loop"
  /\ Len(results) = given.args.n
  /\ pc' = "returned"
  /\ UNCHANGED <<obj, given, cursor, results, calls, fr, gen, produced>>

Next ==
  \/ NewSpecific
  \/ NewInterval
  \/ Factory
  \/ CallGetMatches
  \/ IntervalStep
  \/ GetMatchEnter
  \/ MonthStep
  \/ LocalizeStep
  \/ ProbeOnce
  \/ ProbesExhausted
  \/ GetMatchesReturn

Spec == Init /\ [][Next]_vars

(***************************************************************************)
(* The month generator on its own: created for a start month and a set of  *)
(* months, and resumed MaxYields times.                                    *)
(***************************************************************************)
MonthSets == SUBSET (1..12) \ {{}}

InitGen ==
  /\ pc = "generator"
  /\ obj = None
  /\ \E start \in 1..12, matches \in MonthSets :
       /\ given = [op |-> "_NextMonthGenerator",
                   args |-> [start |-> start, matches |-> matches]]
       /\ gen = NextMonthGenerator(start, matches)
  /\ cursor = None
  /\ results = <<>>
  /\ calls = <<>>
  /\ fr = NoFrame
  /\ produced = <<>>

\* months.next()
GeneratorStep ==
  /\ pc = "generator"
  /\ Len(produced) < MaxYields
  /\ \E g \in {GeneratorNext(gen)} :
       /\ gen' = g
       /\ produced' = Append(produced, Yielded(g))
  /\ UNCHANGED <<pc, obj, given, cursor, results, calls, fr>>

NextGen == GeneratorStep

SpecGen == InitGen /\ [][NextGen]_vars

(***************************************************************************)
(* What the claims speak of.                                               *)
(***************************************************************************)
\* control is in GetMatches or a GetMatch call of it, so obj is an object
InCall == pc \in {"loop", "months", "candidate", "probing", "raised", "searching", "returned"}

\* a SpecificTimeSpecification whose sets are non-empty and within their ranges
ValidSpecific(o) ==
  /\ o.kind = "specific"
  /\ o.ordinals # {} /\ o.ordinals \subseteq 1..5
  /\ o.weekdays # {} /\ o.weekdays \subseteq 0..6
  /\ o.months # {} /\ o.months \subseteq 1..12
  /\ o.monthdays \subseteq 1..31

\* a datetime whose fields name a day and a minute that exist
WellFormed(dt) ==
  /\ dt.month \in 1..12
  /\ dt.day \in 1..DaysInMonth(dt.year, dt.month)
  /\ dt.hour \in 0..23 /\ dt.minute \in 0..59
  /\ dt.second \in 0..59 /\ dt.microsecond \in 0..999999

\* the weekday of a date with Sunday as 0, and the rank of the date among the
\* days of its month that fall on that weekday
SundayWeekday(dt) == (Weekday(dt.year, dt.month, dt.day) + 1) % 7

Occurrence(dt) == ((dt.day - 1) \div 7) + 1

\* dt is a slot of the schedule o: month, day and time of day as o asks
IsSlot(o, dt) ==
  /\ dt.month \in o.months
  /\ IF o.monthdays # {}
       THEN dt.day \in o.monthdays
       ELSE Occurrence(dt) \in o.ordinals /\ SundayWeekday(dt) \in o.weekdays
  /\ dt.hour = o.time.hour /\ dt.minute = o.time.minute
  /\ dt.second = 0 /\ dt.microsecond = 0

\* the latest GetMatch call that returned
LastCall == calls[Len(calls)]

\* C1: on the UTC path, GetMatch(start) of a valid SpecificTimeSpecification
\* returns a naive instant after start that is a slot of the schedule (month in
\* months, day in monthdays or else an ordinal-th weekday, time of day exactly
\* timeOfDay with zero seconds and microseconds), and no slot lies strictly
\* between start and the instant returned.
C1_EarliestSlotAfterStart ==
  (pc = "loop" /\ calls # <<>> /\ ValidSpecific(obj) /\ obj.timezone = None
     /\ LastCall.arg.tz = "none") =>
    LET start == LastCall.arg
        r == LastCall.value
    IN /\ WellFormed(r) /\ r.tz = "none"
       /\ Before(start, r)
       /\ IsSlot(obj, r)
       /\ \A y \in start.year..r.year : \A m \in 1..12 :
            \A d \in 1..DaysInMonth(y, m) :
              LET slot == DT(y, m, d, obj.time.hour, obj.time.minute, 0, 0, "none")
              IN ~(IsSlot(obj, slot) /\ Before(start, slot) /\ Before(slot, r))

\* a start that is itself a slot (the first Monday of January 2024, 09:00) was
\* answered with the following slot, the first Monday of February
C1_Witness ==
  /\ pc = "loop" /\ calls # <<>> /\ ValidSpecific(obj) /\ obj.timezone = None
  /\ obj.ordinals = {1} /\ obj.weekdays = {1} /\ obj.monthdays = {}
  /\ LastCall.arg = DT(2024, 1, 1, 9, 0, 0, 0, "none")
  /\ LastCall.value = DT(2024, 2, 5, 9, 0, 0, 0, "none")

\* C2: GetMatches(start, n) of a valid object returns exactly n instants, the
\* first what GetMatch returned for start, each later one what GetMatch
\* returned for the one before it, each later than the one before it and
\* than start.
C2_MatchesChainAndIncrease ==
  (pc = "returned"
     /\ (ValidSpecific(obj) \/ (obj.kind = "interval" /\ obj.interval > 0))) =>
    /\ Len(results) = given.args.n
    /\ Len(calls) = given.args.n
    /\ \A i \in 1..Len(results) :
         /\ results[i] = calls[i].value
         /\ calls[i].arg = IF i = 1 THEN given.args.start ELSE results[i - 1]
         /\ Before(calls[i].arg, results[i])
         /\ Before(given.args.start, results[i])

\* a call with n = 2 on a valid schedule in a timezone returned two instants
C2_Witness ==
  /\ pc = "returned" /\ ValidSpecific(obj) /\ obj.timezone # None
  /\ given.args.n = 2 /\ Len(results) = 2
  /\ results[1] # results[2]

\* C3: GetMatch(t) of an IntervalTimeSpecification with a positive amount is t
\* plus that many hours when the period is HOURS and that many minutes when it
\* is MINUTES: the distance in minutes is exact and nothing else of t changes.
C3_IntervalAddsAmount ==
  (pc \in {"loop", "returned"} /\ obj.kind = "interval" /\ obj.interval > 0
     /\ obj.period \in {HOURS, MINUTES}) =>
    \A i \in 1..Len(calls) :
      LET t == calls[i].arg
          r == calls[i].value
      IN /\ WellFormed(r)
         /\ AbsMinutes(r) - AbsMinutes(t)
              = IF obj.period = HOURS THEN 60 * obj.interval ELSE obj.interval
         /\ r.second = t.second /\ r.microsecond = t.microsecond /\ r.tz = t.tz

\* 36 hours were added to 23:59:30 of the last day of a year
C3_Witness ==
  /\ pc = "returned" /\ obj.kind = "interval"
  /\ obj.period = HOURS /\ obj.interval = 36
  /\ Len(calls) >= 1
  /\ calls[1].arg = DT(2024, 12, 31, 23, 59, 30, 0, "none")
  /\ calls[1].value = DT(2025, 1, 2, 11, 59, 30, 0, "none")

\* a constructor call of SpecificTimeSpecification has just ended
AfterSpecificInit ==
  pc \in {"constructed", "ctor_raised"} /\ given.op = "SpecificTimeSpecification"

\* a time string "HH:MM" of two digits each, HH below 24 and MM below 60
IsClockString(str) ==
  /\ Len(str) = 5 /\ str[3] = ":"
  /\ \A i \in {1, 2, 4, 5} : IsDigit(str[i])
  /\ 10 * DigitValue(str[1]) + DigitValue(str[2]) <= 23
  /\ 10 * DigitValue(str[4]) + DigitValue(str[5]) <= 59

\* the field the constructor must hold for an optional set argument
Expected(value, default) == IF value = Omitted THEN default ELSE CHOOSE S \in value : TRUE

\* the instance keeps every supplied set and has the default for every omitted one
KeepsOrDefaults(o, a) ==
  /\ o.kind = "specific"
  /\ o.ordinals = Expected(a.ordinals, {1, 2, 3, 4, 5})
  /\ o.weekdays = Expected(a.weekdays, {0, 1, 2, 3, 4, 5, 6})
  /\ o.months = Expected(a.months, {1, 2, 3, 4, 5, 6, 7, 8, 9, 10, 11, 12})
  /\ o.monthdays = Expected(a.monthdays, {})

\* some supplied set holds a value outside its declared range
OutOfRange(a) ==
  \/ a.ordinals # Omitted /\ ~(Expected(a.ordinals, {}) \subseteq 1..5)
  \/ a.weekdays # Omitted /\ ~(Expected(a.weekdays, {}) \subseteq 0..6)
  \/ a.months # Omitted /\ ~(Expected(a.months, {}) \subseteq 1..12)
  \/ a.monthdays # Omitted /\ ~(Expected(a.monthdays, {}) \subseteq 1..31)

\* nothing but the sets can make the constructor fail: a clock string, no timezone
PlainCall(a) == IsClockString(a.timestr) /\ a.timezone \in {None, ""}

\* C4: a constructor call that supplies both weekdays and monthdays raises
\* ValueError and yields no instance; a call that supplies at most one of them
\* (with a well-formed time and no timezone) yields an instance that has the
\* defaults {1..5}, {0..6}, {1..12}, {} for the omitted sets and the supplied
\* sets as given.
C4_BothRejectedElseDefaults ==
  AfterSpecificInit =>
    LET a == given.args IN
    /\ (a.weekdays # Omitted /\ a.monthdays # Omitted) =>
         (pc = "ctor_raised" /\ obj = Raise(ValueError))
    /\ (~(a.weekdays # Omitted /\ a.monthdays # Omitted) /\ PlainCall(a)) =>
         (pc = "constructed" /\ KeepsOrDefaults(obj, a))
    /\ pc = "constructed" => KeepsOrDefaults(obj, a)

\* C5 as the specification states it: a constructor call with a set value
\* outside its declared range fails.
C5_OutOfRangeRejected ==
  (AfterSpecificInit /\ OutOfRange(given.args)) => pc = "ctor_raised"

\* C5 as the code has it: the constructor checks no range.  A call with a set
\* value outside its declared range that supplies at most one of weekdays and
\* monthdays (with a well-formed time and no timezone) raises no validation
\* error, and every instance it yields holds the out-of-range values exactly
\* as supplied.
C5_OutOfRangeKept ==
  (AfterSpecificInit /\ OutOfRange(given.args) /\ PlainCall(given.args)
     /\ ~(given.args.weekdays # Omitted /\ given.args.monthdays # Omitted)) =>
    /\ obj # Raise(ValueError)
    /\ pc = "constructed" => (KeepsOrDefaults(obj, given.args) /\ ~ValidSpecific(obj))

\* the ordinal 6 was supplied and the instance holds it
C5_Witness ==
  /\ AfterSpecificInit /\ pc = "constructed"
  /\ given.args.ordinals = Supplied({6})
  /\ obj.ordinals = {6}

\* the factory has just returned
AfterFactory ==
  pc \in {"constructed", "ctor_raised"} /\ given.op = "GrocTimeSpecification"

\* the time of day the parser's time string names
ClockOf(str) ==
  [hour |-> 10 * DigitValue(str[1]) + DigitValue(str[2]),
   minute |-> 10 * DigitValue(str[4]) + DigitValue(str[5])]

\* what the specification and the code agree on: Interval from the amount and
\* the unit when an interval was recognized, else Specific with the parser's
\* ordinals, weekdays, months and time of day
FactoryCommon(o, p) ==
  IF p.interval_mins # 0
    THEN o = [kind |-> "interval", interval |-> p.interval_mins,
              period |-> p.period_string]
    ELSE /\ o.kind = "specific"
         /\ o.ordinals = p.ordinal_set /\ o.weekdays = p.weekday_set
         /\ o.months = p.month_set /\ o.time = ClockOf(p.time_string)

\* C8 as the specification states it: the Specific spec also takes its
\* monthdays and its timezone from the parser's fields.
C8_AllFieldsFromParser ==
  (AfterFactory /\ pc = "constructed") =>
    /\ FactoryCommon(obj, given.args)
    /\ given.args.interval_mins = 0 =>
         /\ obj.monthdays = given.args.monthday_set
         /\ obj.timezone = given.args.timezone_string

\* C8 as the code has it: the factory returns an Interval spec built from the
\* parser's amount and unit when an interval was recognized, and otherwise
\* calls the Specific constructor with the parser's ordinals, weekdays, months
\* and time of day only: a Specific spec it returns holds these, its monthdays
\* are always empty and its timezone is always none, and with a well-formed
\* time string the call raises no validation error.
C8_FactoryFields ==
  AfterFactory =>
    /\ given.args.interval_mins # 0 => pc = "constructed"
    /\ (given.args.interval_mins = 0 /\ IsClockString(given.args.time_string)) =>
         obj # Raise(ValueError)
    /\ pc = "constructed" =>
         /\ FactoryCommon(obj, given.args)
         /\ given.args.interval_mins = 0 =>
              (obj.monthdays = {} /\ obj.timezone = None)

\* the parser recognized a timezone and the Specific spec returned has none
C8_Witness ==
  /\ AfterFactory /\ pc = "constructed"
  /\ given.args.timezone_string = "US/Pacific"
  /\ obj.kind = "specific" /\ obj.timezone = None
  /\ obj.time = [hour |-> 2, minute |-> 30]

\* the month after month a in chronological order, and whether a year ends before it
MonthAfter(M, a) ==
  IF \E m \in M : m > a
    THEN <<Min({m \in M : m > a}), 0>>
    ELSE <<Min(M), 1>>

\* month m of year y holds a slot of the schedule o that lies after start_time
HoldsSlot(o, start_time, y, m) ==
  \E d \in 1..DaysInMonth(y, m) :
    LET slot == DT(y, m, d, o.time.hour, o.time.minute, 0, 0, start_time.tz)
    IN IsSlot(o, slot) /\ Before(start_time, slot)

\* the i-th month the GetMatch call drew holds a slot after the call's start
DrawHoldsSlot(i) ==
  HoldsSlot(obj, fr.start_time, fr.start_time.year + fr.yields[i][2], fr.yields[i][1])

\* the month search of the GetMatch call has ended
SearchOver == pc \in {"candidate", "probing", "raised", "loop", "returned"}

\* the days of the longest month m of any year
LongestMonth(m) == IF m = 2 THEN 29 ELSE IF m \in {4, 6, 9, 11} THEN 30 ELSE 31

\* schedules for which twelve draws are enough from every start: a day of
\* monthdays exists in a configured month, or the days are weekdays by ordinal
\* and an ordinal of at most 4 or at least nine months are configured
TwelveSuffice(o) ==
  \/ o.monthdays # {} /\ \E d \in o.monthdays, m \in o.months : d <= LongestMonth(m)
  \/ o.monthdays = {} /\ \E k \in o.ordinals : k <= 4
  \/ o.monthdays = {} /\ Cardinality(o.months) >= 9

\* C6 as the specification states it: GetMatch of every valid
\* SpecificTimeSpecification, with or without monthdays, is over after at most
\* 12 draws from the month generator.
C6_TwelveStepsForEveryValidSpec ==
  (InCall /\ ValidSpecific(obj)) =>
    (Len(fr.yields) <= 12 /\ pc # "searching")

\* C6 as the code has it: GetMatch of a valid SpecificTimeSpecification draws
\* the configured months in chronological order from the start's month, passes
\* over exactly the months that hold no slot after the start and ends its
\* search at the first month that holds one; so a search of more than 12 draws
\* found no such slot in the first 12 months drawn.  At most 12 draws are made
\* from every start when a day of monthdays exists in a configured month
\* (February taken with 29 days), when monthdays is empty and ordinals holds an
\* ordinal of at most 4, or when monthdays is empty and at least 9 months are
\* configured.
C6_SearchEndsAtFirstMonthWithSlot ==
  (InCall /\ ValidSpecific(obj) /\ fr.yields # <<>>) =>
    LET n == Len(fr.yields) IN
    /\ \A i \in 1..n :
         LET prev == IF i = 1 THEN <<fr.start_time.month - 1, 0>> ELSE fr.yields[i - 1]
             step == MonthAfter(obj.months, prev[1])
         IN fr.yields[i] = <<step[1], prev[2] + step[2]>>
    /\ \A i \in 1..(n - 1) : ~DrawHoldsSlot(i)
    /\ pc = "months" => ~DrawHoldsSlot(n)
    /\ SearchOver => DrawHoldsSlot(n)
    /\ n > 12 => \A i \in 1..12 : ~DrawHoldsSlot(i)
    /\ TwelveSuffice(obj) => (n <= 12 /\ pc # "searching")

\* the twelfth draw gave the candidate: from 2024-04-01 the fifth Thursdays of
\* February, March and June are looked for, and the first is 2028-03-30
C6_Witness ==
  /\ pc = "candidate" /\ ValidSpecific(obj)
  /\ obj.ordinals = {5} /\ obj.weekdays = {4} /\ obj.months = {2, 3, 6}
  /\ Len(fr.yields) = 12
  /\ fr.yields[1] = <<6, 0>> /\ fr.yields[12] = <<3, 4>>
  /\ fr.candidate = DT(2028, 3, 30, 9, 0, 0, 0, "none")

\* GetMatch of a spec with a timezone is past a candidate that localize refused
AfterRefusal == InCall /\ obj.kind = "specific" /\ obj.timezone # None /\ fr.failed

\* the call that refused the candidate has returned
Recovered == AfterRefusal /\ pc \in {"loop", "returned"}

\* C7: when localize refuses the candidate of a spec with a timezone, the
\* caller never sees that signal: GetMatch returns the UTC conversion of a
\* local time localize accepted, other than the candidate, and it raises (a
\* ValueError) only when the 24 probes were refused as well.
C7_RefusalNotSurfaced ==
  AfterRefusal =>
    LET zone == ZoneOf(obj.timezone) IN
    /\ ~Localize(zone, fr.candidate).ok
    /\ pc = "raised" =>
         /\ fr.exc = ValueError
         /\ Len(fr.probes) = 24
         /\ \A k \in 1..24 : ~Localize(zone, fr.probes[k]).ok
    /\ Recovered =>
         /\ Localize(zone, fr.out).ok
         /\ fr.out # fr.candidate
         /\ LastCall.value = fr.value
         /\ fr.value.tz = "UTC"
         /\ AbsMinutes(fr.value) = AbsMinutes(fr.out) - Localize(zone, fr.out).offset
         /\ UtcToLocal(zone, fr.value) = fr.out

\* 02:30 of 2024-03-10 does not exist in US/Pacific and GetMatch returned
C7_Witness ==
  /\ Recovered /\ obj.timezone = "US/Pacific"
  /\ fr.candidate = DT(2024, 3, 10, 2, 30, 0, 0, "none")
  /\ fr.value = DT(2024, 3, 10, 10, 1, 0, 0, "UTC")

\* C9 as the specification states it: the k-th probe is the candidate plus k hours.
C9_ProbesAreCandidatePlusHours ==
  AfterRefusal =>
    \A k \in 1..Len(fr.probes) :
      AbsMinutes(fr.probes[k]) = AbsMinutes(fr.candidate) + 60 * k

\* C9 as the code has it: the k-th probe (k = 1..24) is the candidate with its
\* minute set to 1, plus k hours; the probes are tried in that order, no probe
\* follows one that localizes, and the probe that localizes is the local time
\* returned, converted to UTC.
C9_ProbesFromMinuteOne ==
  AfterRefusal =>
    LET zone == ZoneOf(obj.timezone)
        n == Len(fr.probes)
    IN /\ n <= 24
       /\ \A k \in 1..n :
            /\ AbsMinutes(fr.probes[k])
                 = AbsMinutes(fr.candidate) - fr.candidate.minute + 1 + 60 * k
            /\ fr.probes[k].second = 0 /\ fr.probes[k].microsecond = 0
            /\ WellFormed(fr.probes[k])
       /\ \A k \in 1..(n - 1) : ~Localize(zone, fr.probes[k]).ok
       /\ pc = "probing" => \A k \in 1..n : ~Localize(zone, fr.probes[k]).ok
       /\ Recovered =>
            /\ n >= 1
            /\ Localize(zone, fr.probes[n]).ok
            /\ LastCall.value = ToUTC(fr.probes[n], Localize(zone, fr.probes[n]).offset)

\* 12:30 of 2011-12-30 does not exist in Pacific/Apia: the twelfth probe,
\* 00:01 of the 31st, was the first to localize
C9_Witness ==
  /\ Recovered /\ obj.timezone = "Pacific/Apia"
  /\ fr.candidate = DT(2011, 12, 30, 12, 30, 0, 0, "none")
  /\ Len(fr.probes) = 12
  /\ fr.probes[12] = DT(2011, 12, 31, 0, 1, 0, 0, "none")

\* (month, wrapcount) tuples in chronological order
Earlier(p, q) == p[2] < q[2] \/ (p[2] = q[2] /\ p[1] < q[1])

\* C10: the tuples _NextMonthGenerator(s, M) yields hold months of M only,
\* start with the smallest month of M that is >= s at wrapcount 0 (or min(M)
\* at wrapcount 1), go on with the next larger month of M or wrap to min(M)
\* with wrapcount one higher, are strictly increasing in (wrapcount, month),
\* and leave out no (month of M, wrapcount) in between.
C10_GeneratorOrder ==
  pc = "generator" =>
    LET M == given.args.matches
        s == given.args.start
    IN \A i \in 1..Len(produced) :
         LET cur == produced[i]
             prev == IF i = 1 THEN <<s - 1, 0>> ELSE produced[i - 1]
             step == MonthAfter(M, prev[1])
         IN /\ cur[1] \in M
            /\ cur = <<step[1], prev[2] + step[2]>>
            /\ Earlier(prev, cur)
            /\ \A w \in prev[2]..cur[2] : \A m \in M :
                 ~(Earlier(prev, <<m, w>>) /\ Earlier(<<m, w>>, cur))

\* from start month 7 the months {3, 9} gave (9, 0), (3, 1), (9, 1)
C10_Witness ==
  /\ pc = "generator"
  /\ given.args = [start |-> 7, matches |-> {3, 9}]
  /\ Len(produced) = 3
  /\ produced = << <<9, 0>>, <<3, 1>>, <<9, 1>> >>

====
